---- MODULE Spec2Model ----
(***************************************************************************)
(* The LangGraph chat agent of backend/src/core/chat_agent.py:             *)
(* query_router_node -> embedding_determination -> sql_generation ->       *)
(* result_evaluation -> (sql_generation | END), over the shared            *)
(* ChatAgentState dictionary.                                              *)
(*                                                                         *)
(* Python values are modelled as follows.  A string is a TLA+ string, the  *)
(* Python None of a string-typed field is the string None.  A list (rows,  *)
(* vectors, the SQL text as a list of lexical tokens) is a sequence, and   *)
(* the None of a list-typed field is the one-element sequence NoneList.    *)
(* A JSON object returned by the model is a record of field values, where  *)
(* Absent says the key is missing and JNull that its value is null.        *)
(***************************************************************************)
EXTENDS Integers, Sequences, FiniteSets, TLC

VARIABLES pc, exc, max_attempts, uploaded_image_base64,
          enhanced_query, query_intent, text_embedding, visual_embedding,
          sql_query, query_results, evaluation_feedback, attempt_count,
          final_answer, sql_query_history,
          llm_calls, executed, synth_runs, embed_calls,
          checked_out,
          http_status, answer_chunks, answer_field, assistant_message,
          turn_pc, connection_pool, bedrock_client, text_model, clip_model,
          clip_processor, constructed,
          react_pc, iteration, max_iterations, tool_results, react_final_answer,
          op_pc, op_request, op_response, in_flight, response_queue

\* the state of one run_chat_agent call, and the connections checked out of
\* the pool of services/database.py
chatVars == <<pc, exc, max_attempts, uploaded_image_base64,
              enhanced_query, query_intent, text_embedding, visual_embedding,
              sql_query, query_results, evaluation_feedback, attempt_count,
              final_answer, sql_query_history,
              llm_calls, executed, synth_runs, embed_calls, checked_out>>

\* what handle_chat of lambda_function.py hands back for one /chat request
\* and what it writes to the conversation store
lambdaVars == <<http_status, answer_chunks, answer_field, assistant_message>>

\* the module-level singletons of services/database.py, services/
\* bedrock_client.py and embeddings.py, the position of every concurrent turn
\* inside their initialisers, and the number of objects built of each kind
singletonVars == <<turn_pc, connection_pool, bedrock_client, text_model, clip_model,
                   clip_processor, constructed>>

\* the AgentState of one run_agent call of backend/agent.py (its final_answer
\* is react_final_answer here) and the node the graph is at
reactVars == <<react_pc, iteration, max_iterations, tool_results, react_final_answer>>

\* the Blender add-on: the modal operators that are running, the request
\* each one started and the response each one took, the request threads that
\* have not finished, and the response_queue of the shared AsyncAPIClient
blenderVars == <<op_pc, op_request, op_response, in_flight, response_queue>>

\* everything outside the chat agent
otherVars == <<lambdaVars, singletonVars, reactVars, blenderVars>>

vars == <<chatVars, otherVars>>

(* ------------------------------ bounds --------------------------------- *)

\* largest max_attempts argument explored
MaxBudget == 2

\* number of sql_generation_node runs explored in one turn
MaxSynthRuns == 3

\* number of concurrent turns (request threads) explored
MaxTurns == 2

\* number of objects of one kind a process builds before the exploration stops
MaxConstructions == 3

\* largest max_iterations argument of run_agent explored, next to the default
MaxIterations == 3

\* number of tool calls parsed out of one model response, and recorded in one
\* run, explored
MaxCallsPerResponse == 2

MaxToolResults == 2

\* number of modal operators of the add-on running at the same time
MaxOperators == 2

\* dimensions of the text and CLIP vectors explored (384 and 512 in the code)
TextDim == 2

ClipDim == 3

(* --------------------------- program constants ------------------------- *)

MAX_ATTEMPTS == 2

MAX_ITERATIONS == 5

(* ------------------------------ values --------------------------------- *)

None == "<None>"
NoneList == <<None>>
Absent == "<absent>"
JNull == "<null>"

\* bool(x) of a str-or-None value
Truthy(s) == s # None /\ s # ""

\* an "is not None" test in place of the truthiness test
TruthyList_NotNone(l) == l # NoneList

\* bool(x) of a list-or-None value
TruthyList(l) == l # NoneList /\ l # <<>>

\* dict.get(key, default) on a parsed JSON object: json null becomes None
Get(v, default) == IF v = Absent THEN default ELSE IF v = JNull THEN None ELSE v

UserQuery == "how many blend files"

APOLOGY == "I was unable to generate a valid SQL query for your request. Please try reformatting your question."

NOT_DATABASE == "I'm designed to help with CG production asset database queries. Your question doesn't seem related to the database. Could you ask about files, metadata, shows, or production data?"

HEDGE_EMPTY == "I couldn't find results matching your query. The database might not contain this information, or try rephrasing your question."

NO_RESULTS == "No results found for your query."

DEFAULT_FEEDBACK == "Results did not match query intent"

DEFAULT_SUMMARY == "Results found."

FoundMsg(n) == "Found " \o ToString(n) \o " results."

HedgeFound(n) == "I found " \o ToString(n) \o " results, but they may not fully answer your question. Please try rephrasing or being more specific."

ExecErrorFeedback(e) == "SQL execution error: " \o e

\* an answer text that opens with the begin-of-text marker of a Llama prompt
PROMPT_ANSWER == "<|begin_of_text|>Say hello."

(* ------------------------------ intents -------------------------------- *)

\* a query_intent dictionary, as the set of its entries: a key whose value is
\* true is written by its name, any other entry as key=value; the None intent
\* is NoneIntent
NoneIntent == {None}

\* a fallback intent without entries
DefaultIntent_Empty == {}

\* {"search_type": "similarity", "needs_text_embedding": True}
DefaultIntent == {"search_type=similarity", "needs_text_embedding"}

\* the "intent" field of the router's JSON: absent, null, or a dictionary
\* written here by the keys it sets to true
IntentFields == {Absent, JNull, "{}", "{needs_text_embedding}", "{needs_visual_embedding}",
                 "{needs_text_embedding,needs_visual_embedding}"}

IntentDict(f) ==
  CASE f = "{}" -> {}
    [] f = "{needs_text_embedding}" -> {"needs_text_embedding"}
    [] f = "{needs_visual_embedding}" -> {"needs_visual_embedding"}
    [] f = "{needs_text_embedding,needs_visual_embedding}" ->
           {"needs_text_embedding", "needs_visual_embedding"}

\* parsed.get('intent', {})
IntentGet(f) == IF f = Absent THEN {} ELSE IF f = JNull THEN NoneIntent ELSE IntentDict(f)

(* --------------------------- router responses -------------------------- *)

\* what invoke_bedrock returns to query_router: text without a {...} span,
\* text whose {...} span is not JSON, or a JSON object
RouterResponses ==
      { [kind |-> k, is_database_query |-> Absent, direct_answer |-> Absent,
         enhanced_query |-> Absent, intent |-> Absent] : k \in {"nojson", "badjson"} }
 \cup { [kind |-> "json", is_database_query |-> "false", direct_answer |-> d,
         enhanced_query |-> Absent, intent |-> Absent] :
           d \in {Absent, JNull, "", "Hello! How can I help?", PROMPT_ANSWER} }
 \cup { [kind |-> "json", is_database_query |-> q, direct_answer |-> Absent,
         enhanced_query |-> "count of blend files", intent |-> i] :
           q \in {"true", Absent}, i \in IntentFields \ {Absent} }
 \cup { [kind |-> "json", is_database_query |-> "true", direct_answer |-> Absent,
         enhanced_query |-> Absent, intent |-> Absent] }

\* the conditional edge out of query_router_node
RouterEdge(fa) == IF Truthy(fa) THEN "END" ELSE "embedding_determination"

(* ----------------------------- singletons ----------------------------- *)

Turns == 1..MaxTurns

SingletonKinds == {"connection_pool", "bedrock_client", "text_model", "clip_model",
                   "clip_processor"}

\* a module-level global holding None; an object is written by its serial
\* number among the objects built of its kind
NoObject == 0

\* _bedrock_client = None
NoClient == [id |-> NoObject, streaming |-> FALSE]

\* the streaming argument of the invoke_bedrock calls of the chat agent
BedrockCallModes == {FALSE}

(* --------------------------- Blender add-on ---------------------------- *)

Operators == 1..MaxOperators

\* the *_async methods of AsyncAPIClient, one per modal operator class
AsyncCalls == {"authenticate_async", "get_conversations_async", "get_conversation_async",
               "delete_conversation_async", "chat_stream_async"}

\* a queue item: ('success', result) or ('error', text), written with the
\* operator whose request produced it and the call it answers
Response(o, call, status) == [owner |-> o, call |-> call, status |-> status]

NoResponse == Response(0, None, None)

(* ------------------------------- state --------------------------------- *)

Init ==
  /\ pc = "query_router_node"
  /\ exc = None
  /\ max_attempts \in 1..MaxBudget
  /\ uploaded_image_base64 \in {None, "base64-jpeg"}
  /\ enhanced_query = None
  /\ query_intent = NoneIntent
  /\ text_embedding = NoneList
  /\ visual_embedding = NoneList
  /\ sql_query = NoneList
  /\ query_results = NoneList
  /\ evaluation_feedback = None
  /\ attempt_count = 0
  /\ final_answer = None
  /\ sql_query_history = <<>>
  /\ llm_calls = 0
  /\ executed = <<>>
  /\ synth_runs = 0
  /\ embed_calls = {}
  /\ checked_out = 0
  /\ http_status = 0
  /\ answer_chunks = <<>>
  /\ answer_field = Absent
  /\ assistant_message = Absent
  /\ turn_pc = [t \in Turns |-> "idle"]
  /\ connection_pool = NoObject
  /\ bedrock_client = NoClient
  /\ text_model = NoObject
  /\ clip_model = NoObject
  /\ clip_processor = NoObject
  /\ constructed = [k \in SingletonKinds |-> 0]
  /\ react_pc = "idle"
  /\ iteration = 0
  /\ max_iterations = MAX_ITERATIONS
  /\ tool_results = <<>>
  /\ react_final_answer = None
  /\ op_pc = [o \in Operators |-> "idle"]
  /\ op_request = [o \in Operators |-> None]
  /\ op_response = [o \in Operators |-> NoResponse]
  /\ in_flight = {}
  /\ response_queue = <<>>

\* an exception leaves the node and agent.invoke: the state dictionary is lost
Raise(e) ==
  /\ pc' = "raised"
  /\ exc' = e
  /\ UNCHANGED <<max_attempts, uploaded_image_base64, enhanced_query, query_intent,
                 text_embedding, visual_embedding, sql_query, query_results,
                 evaluation_feedback, attempt_count, final_answer, sql_query_history,
                 executed, synth_runs, embed_calls, checked_out>>

query_router(r) ==
  /\ pc = "query_router_node"
  /\ llm_calls' = llm_calls + 1
  /\ IF r.kind # "json"
       THEN \* no JSON span, or json.JSONDecodeError: the conservative fallback
            /\ enhanced_query' = UserQuery
            /\ query_intent' = DefaultIntent
            /\ pc' = RouterEdge(final_answer)
            /\ UNCHANGED <<exc, final_answer, query_results>>
       ELSE IF Get(r.is_database_query, "true") # "true"
       THEN LET direct_answer == Get(r.direct_answer, NOT_DATABASE) IN
            IF direct_answer = None
              THEN \* direct_answer[:100] on None
                   Raise("TypeError")
              ELSE /\ final_answer' = direct_answer
                   /\ query_results' = <<>>
                   /\ pc' = RouterEdge(direct_answer)
                   /\ UNCHANGED <<exc, enhanced_query, query_intent>>
       ELSE /\ enhanced_query' = Get(r.enhanced_query, UserQuery)
            /\ query_intent' = IntentGet(r.intent)
            /\ pc' = RouterEdge(final_answer)
            /\ UNCHANGED <<exc, final_answer, query_results>>
  /\ UNCHANGED <<max_attempts, uploaded_image_base64, text_embedding, visual_embedding,
                 sql_query, evaluation_feedback, attempt_count, sql_query_history,
                 executed, synth_runs, embed_calls, checked_out>>
  /\ UNCHANGED otherVars

(* ----------------------------- embedder ------------------------------- *)

\* what an embedding function hands back: a vector, the all-zero vector its
\* own except handler returns, or an exception
EmbedOutcomes == {"vector", "zero", "raise"}

ZeroVector(dim) == [i \in 1..dim |-> 0]

EmbedResult(outcome, dim) ==
  CASE outcome = "vector" -> [i \in 1..dim |-> i]
    [] outcome = "zero" -> ZeroVector(dim)
    [] outcome = "raise" -> NoneList

\* intent.get(key, False)
IntentFlag(intent, key) == key \in intent

\* the visual embedding always taken from the query text
VisualEmbeddingFn_TextOnly(image) == "generate_image_embedding_from_text"

\* the embedding function of the visual branch: the uploaded image if there
\* is one, the query text otherwise
VisualEmbeddingFn(image) ==
  IF Truthy(image) THEN "generate_image_embedding_from_base64"
  ELSE "generate_image_embedding_from_text"

embedding_determination_node(tout, vout) ==
  /\ pc = "embedding_determination"
  /\ UNCHANGED otherVars
  /\ IF query_intent = NoneIntent
       THEN \* None.get(...)
            /\ Raise("AttributeError")
            /\ UNCHANGED llm_calls
       ELSE LET nt == IntentFlag(query_intent, "needs_text_embedding")
                nv == IntentFlag(query_intent, "needs_visual_embedding")
                vfn == VisualEmbeddingFn(uploaded_image_base64)
            IN /\ text_embedding' = IF nt THEN EmbedResult(tout, TextDim) ELSE text_embedding
               /\ visual_embedding' = IF nv THEN EmbedResult(vout, ClipDim) ELSE visual_embedding
               /\ embed_calls' = embed_calls
                                   \cup (IF nt THEN {"generate_text_embedding"} ELSE {})
                                   \cup (IF nv THEN {vfn} ELSE {})
               /\ pc' = "sql_generation"
               /\ UNCHANGED <<exc, max_attempts, uploaded_image_base64, enhanced_query,
                              query_intent, sql_query, query_results, evaluation_feedback,
                              attempt_count, final_answer, sql_query_history, llm_calls,
                              executed, synth_runs, checked_out>>

(* ---------------------------- synthesizer ------------------------------ *)

EMBEDDING_VECTOR == "[EMBEDDING_VECTOR]"

VISUAL_EMBEDDING == "[VISUAL_EMBEDDING]"

\* SQL texts, as sequences of lexical tokens; <<>> is the empty string
SqlTexts == { <<>>, <<"SELECT">>, <<"DROP">>,
              <<" ", "with", EMBEDDING_VECTOR, VISUAL_EMBEDDING, EMBEDDING_VECTOR>> }

\* what invoke_bedrock returns to sql_generation_node; sqlkind says whether the
\* JSON object has no "sql" key, a null one, or a text
SqlResponses ==
      { [kind |-> k, sqlkind |-> "absent", sql |-> <<>>] : k \in {"nojson", "badjson"} }
 \cup { [kind |-> "json", sqlkind |-> k, sql |-> <<>>] : k \in {"absent", "null"} }
 \cup { [kind |-> "json", sqlkind |-> "text", sql |-> t] : t \in SqlTexts }

RECURSIVE Join(_)
Join(v) == IF v = <<>> THEN ""
           ELSE IF Len(v) = 1 THEN ToString(v[1])
           ELSE ToString(v[1]) \o "," \o Join(Tail(v))

\* f"[{','.join(map(str, vector))}]"
VectorLiteral(v) == "[" \o Join(v) \o "]"

\* str.replace(token, literal)
Replace(sql, token, literal) ==
  [i \in 1..Len(sql) |-> IF sql[i] = token THEN literal ELSE sql[i]]

\* the second replacement aimed at the first placeholder again
Substitute_SameToken(sql, tvec, vvec) ==
  LET s1 == IF TruthyList(tvec) THEN Replace(sql, EMBEDDING_VECTOR, VectorLiteral(tvec)) ELSE sql
  IN IF TruthyList(vvec) THEN Replace(s1, EMBEDDING_VECTOR, VectorLiteral(vvec)) ELSE s1

Substitute(sql, tvec, vvec) ==
  LET s1 == IF TruthyList(tvec) THEN Replace(sql, EMBEDDING_VECTOR, VectorLiteral(tvec)) ELSE sql
  IN IF TruthyList(vvec) THEN Replace(s1, VISUAL_EMBEDDING, VectorLiteral(vvec)) ELSE s1

NewAttempt(sql, n) ==
  [sql |-> sql, attempt |-> n, results |-> NoneList, feedback |-> None,
   result_count |-> -1, satisfactory |-> Absent]

sql_generation_node(r) ==
  /\ pc = "sql_generation"
  /\ synth_runs < MaxSynthRuns
  /\ llm_calls' = llm_calls + 1
  /\ IF r.kind # "json"
       THEN /\ sql_query' = NoneList
            /\ synth_runs' = synth_runs + 1
            /\ pc' = "result_evaluation"
            /\ UNCHANGED <<exc, sql_query_history>>
       ELSE IF r.sqlkind = "null"
       THEN \* None.replace(...) or None[:200]
            /\ Raise(IF TruthyList(text_embedding) \/ TruthyList(visual_embedding)
                       THEN "AttributeError" ELSE "TypeError")
       ELSE LET sql == Substitute(r.sql, text_embedding, visual_embedding) IN
            /\ sql_query' = sql
            /\ sql_query_history' = Append(sql_query_history, NewAttempt(sql, attempt_count + 1))
            /\ synth_runs' = synth_runs + 1
            /\ pc' = "result_evaluation"
            /\ UNCHANGED exc
  /\ UNCHANGED <<max_attempts, uploaded_image_base64, enhanced_query, query_intent,
                 text_embedding, visual_embedding, query_results, evaluation_feedback,
                 attempt_count, final_answer, executed, embed_calls, checked_out>>
  /\ UNCHANGED otherVars

(* -------------------------------- judge -------------------------------- *)

\* sql.strip().upper(), on the first token that is not white space
Upper(tok) ==
  CASE tok = "select" -> "SELECT"
    [] tok = "with" -> "WITH"
    [] OTHER -> tok

RECURSIVE Strip(_)
Strip(sql) == IF sql # <<>> /\ Head(sql) = " " THEN Strip(Tail(sql)) ELSE sql

\* the SELECT check left out: any statement text passes
IsSelectOnly_Unchecked(sql) == sql # <<>>

\* sql_upper.startswith('SELECT') or sql_upper.startswith('WITH')
IsSelectOnly(sql) ==
  LET t == Strip(sql) IN t # <<>> /\ Upper(Head(t)) \in {"SELECT", "WITH"}

\* row sets the store may return; a row is written by its text
RowSets == { <<>>, <<"count=0">>, <<"a.blend", "b.blend">> }

\* cursor.execute / fetchall: an exception or a row set
StoreOutcomes == { [error |-> e, rows |-> <<>>] : e \in {"syntax error"} }
            \cup { [error |-> None, rows |-> rs] : rs \in RowSets }

\* _add_thumbnail_urls: every row gets a thumbnail_url key
AddThumbnailUrls(rows) == [i \in 1..Len(rows) |-> rows[i] \o " thumbnail_url"]

\* what invoke_bedrock returns to result_evaluation_node
EvalResponses ==
      { [kind |-> k, satisfactory |-> Absent, feedback |-> Absent, summary |-> Absent] :
           k \in {"nojson", "badjson"} }
 \cup { [kind |-> "json", satisfactory |-> "true", feedback |-> Absent, summary |-> m] :
           m \in {Absent, JNull, "", "There are 0 blend files.", "The tool returned rows."} }
 \cup { [kind |-> "json", satisfactory |-> v, feedback |-> f, summary |-> Absent] :
           v \in {"false", Absent}, f \in {Absent, JNull, "", "Filter by show."} }

\* 'tool' in summary.lower() or 'function' in summary.lower()
MentionsTools(summary) == summary \in {"The tool returned rows."}

\* the fallback without its empty-rows case
FallbackAnswer_CountOnly(rows) == FoundMsg(Len(rows))

\* the answer of the three fallback handlers of the evaluation parse
FallbackAnswer(rows) == IF TruthyList(rows) THEN FoundMsg(Len(rows)) ELSE NO_RESULTS

\* the backfill of the row set left out
SetLastResults_Skip(h, rows) == h

\* state['sql_query_history'][-1]['results'] and ['result_count'], guarded by
\* a non-empty history
SetLastResults(h, rows) ==
  IF h = <<>> THEN h
  ELSE [h EXCEPT ![Len(h)] = [@ EXCEPT !.results = rows, !.result_count = Len(rows)]]

\* the feedback written to the first record of the history
SetLastFeedback_First(h, fb) ==
  IF h = <<>> THEN h
  ELSE [h EXCEPT ![1] = [@ EXCEPT !.feedback = fb, !.satisfactory = "False"]]

\* state['sql_query_history'][-1]['feedback'] and ['satisfactory'], guarded by
\* a non-empty history
SetLastFeedback(h, fb) ==
  IF h = <<>> THEN h
  ELSE [h EXCEPT ![Len(h)] = [@ EXCEPT !.feedback = fb, !.satisfactory = "False"]]

\* the except handler keeping the row set it found
ErrorResults_Stale(old) == old

\* state['query_results'] = [] of the except handler
ErrorResults(old) == <<>>

\* the budget test off by one: the counter compared without the current attempt
Exhausted_OffByOne(ac, ma) == ac >= ma

\* state['attempt_count'] + 1 >= state['max_attempts']
Exhausted(ac, ma) == ac + 1 >= ma

\* the conditional edge out of result_evaluation
should_retry_sql(fa, fb, ac, ma) ==
  IF Truthy(fa) THEN "finish"
  ELSE IF Truthy(fb) /\ ac < ma THEN "retry"
  ELSE "finish"

RetryEdge(fa, fb, ac, ma) ==
  IF should_retry_sql(fa, fb, ac, ma) = "retry" THEN "sql_generation" ELSE "END"

\* SimpleConnectionPool(minconn=1, maxconn=5)
MAXCONN == 5

POOL_EXHAUSTED == "connection pool exhausted"

\* connection_pool.getconn() raises PoolError once maxconn connections are out
PoolExhausted(n) == n >= MAXCONN

\* get_connection(): one more connection is checked out
Acquired(n) == n + 1

\* release_connection(conn): connection_pool.putconn(conn)
Released(n) == n - 1

result_evaluation_node(st, ev) ==
  /\ pc = "result_evaluation"
  /\ IF ~TruthyList(sql_query)
       THEN \* no SQL to run
            /\ final_answer' = APOLOGY
            /\ query_results' = <<>>
            /\ pc' = RetryEdge(APOLOGY, evaluation_feedback, attempt_count, max_attempts)
            /\ UNCHANGED <<evaluation_feedback, attempt_count, sql_query_history,
                           llm_calls, executed, checked_out>>
       ELSE IF PoolExhausted(checked_out) \/ ~IsSelectOnly(sql_query) \/ st.error # None
       THEN \* except Exception: the PoolError of getconn, the ValueError of the
            \* SELECT check or a store error; the handler does not call
            \* release_connection
            LET e == IF PoolExhausted(checked_out) THEN POOL_EXHAUSTED
                     ELSE IF ~IsSelectOnly(sql_query) THEN "Only SELECT queries are allowed"
                     ELSE st.error
                fb == ExecErrorFeedback(e)
            IN /\ checked_out' = IF PoolExhausted(checked_out) THEN checked_out
                                 ELSE checked_out + 1
               /\ executed' = IF ~PoolExhausted(checked_out) /\ IsSelectOnly(sql_query)
                                THEN Append(executed, sql_query)
                              ELSE executed
               /\ query_results' = ErrorResults(query_results)
               /\ evaluation_feedback' = fb
               /\ attempt_count' = attempt_count + 1
               /\ pc' = RetryEdge(final_answer, fb, attempt_count + 1, max_attempts)
               /\ UNCHANGED <<final_answer, sql_query_history, llm_calls>>
       ELSE LET rows == AddThumbnailUrls(st.rows)
                h1 == SetLastResults(sql_query_history, rows)
                sat == ev.kind = "json" /\ Get(ev.satisfactory, "false") = "true"
                summary == Get(ev.summary, DEFAULT_SUMMARY)
                fb == Get(ev.feedback, DEFAULT_FEEDBACK)
                exhausted == Exhausted(attempt_count, max_attempts)
                fa == IF ev.kind # "json" THEN FallbackAnswer(rows)
                      ELSE IF sat
                        THEN IF summary = None THEN FallbackAnswer(rows)
                             ELSE IF MentionsTools(summary) THEN FoundMsg(Len(rows))
                             ELSE summary
                      ELSE IF exhausted
                        THEN IF TruthyList(rows) THEN HedgeFound(Len(rows)) ELSE HEDGE_EMPTY
                      ELSE final_answer
                unsat == ev.kind = "json" /\ ~sat
            IN /\ checked_out' = Released(Acquired(checked_out))
               /\ executed' = Append(executed, sql_query)
               /\ llm_calls' = llm_calls + 1
               /\ query_results' = rows
               /\ final_answer' = fa
               /\ evaluation_feedback' = IF unsat THEN fb ELSE evaluation_feedback
               /\ sql_query_history' =
                    IF unsat THEN SetLastFeedback(h1, fb) ELSE h1
               /\ attempt_count' = IF unsat /\ ~exhausted THEN attempt_count + 1
                                   ELSE attempt_count
               /\ pc' = RetryEdge(fa, IF unsat THEN fb ELSE evaluation_feedback,
                                  IF unsat /\ ~exhausted THEN attempt_count + 1
                                  ELSE attempt_count,
                                  max_attempts)
  /\ UNCHANGED <<exc, max_attempts, uploaded_image_base64, enhanced_query, query_intent,
                 text_embedding, visual_embedding, sql_query, synth_runs, embed_calls>>
  /\ UNCHANGED otherVars

Next ==
  \/ \E r \in RouterResponses : query_router(r)
  \/ \E tout, vout \in EmbedOutcomes : embedding_determination_node(tout, vout)
  \/ \E r \in SqlResponses : sql_generation_node(r)
  \/ \E st \in StoreOutcomes, ev \in EvalResponses : result_evaluation_node(st, ev)

Spec == Init /\ [][Next]_vars

(* A turn seen from the judge: the router falls back to the default intent,  *)
(* the embedder succeeds and no image is uploaded; the synthesizer, the      *)
(* store and the judging model are unrestricted.                             *)

JudgeRouterResponses == { r \in RouterResponses : r.kind = "nojson" }

JudgeInit == Init /\ uploaded_image_base64 = None

JudgeNext ==
  \/ \E r \in JudgeRouterResponses : query_router(r)
  \/ embedding_determination_node("vector", "vector")
  \/ \E r \in SqlResponses : sql_generation_node(r)
  \/ \E st \in StoreOutcomes, ev \in EvalResponses : result_evaluation_node(st, ev)

JudgeSpec == JudgeInit /\ [][JudgeNext]_vars

(* A turn seen from the router, the embedder and the synthesizer, which are  *)
(* unrestricted; the judging model always answers without JSON, so a turn    *)
(* goes on only after an execution error.                                    *)

FrontEvalResponses == { ev \in EvalResponses : ev.kind = "nojson" }

FrontNext ==
  \/ \E r \in RouterResponses : query_router(r)
  \/ \E tout, vout \in EmbedOutcomes : embedding_determination_node(tout, vout)
  \/ \E r \in SqlResponses : sql_generation_node(r)
  \/ \E st \in StoreOutcomes, ev \in FrontEvalResponses : result_evaluation_node(st, ev)

FrontSpec == Init /\ [][FrontNext]_vars

(* Turn after turn on one warm process: the pool of services/database.py    *)
(* outlives a run_chat_agent call, the ChatAgentState does not.  The router  *)
(* falls back, the embedder succeeds, the synthesizer answers with a         *)
(* statement or with no JSON.                                                *)

\* run_chat_agent called for the next turn: a fresh ChatAgentState
run_chat_agent(ma, image) ==
  /\ pc \in {"END", "raised"}
  /\ pc' = "query_router_node"
  /\ exc' = None
  /\ max_attempts' = ma
  /\ uploaded_image_base64' = image
  /\ enhanced_query' = None
  /\ query_intent' = NoneIntent
  /\ text_embedding' = NoneList
  /\ visual_embedding' = NoneList
  /\ sql_query' = NoneList
  /\ query_results' = NoneList
  /\ evaluation_feedback' = None
  /\ attempt_count' = 0
  /\ final_answer' = None
  /\ sql_query_history' = <<>>
  /\ llm_calls' = 0
  /\ executed' = <<>>
  /\ synth_runs' = 0
  /\ embed_calls' = {}
  /\ UNCHANGED checked_out
  /\ UNCHANGED otherVars

PoolSqlResponses ==
  { r \in SqlResponses : r.kind = "nojson" \/ (r.sqlkind = "text" /\ r.sql \in {<<"SELECT">>, <<"DROP">>}) }

PoolEvalResponses ==
  { ev \in EvalResponses : ev.kind = "nojson" \/ ev.feedback = "Filter by show." }

PoolInit == Init /\ max_attempts = MAX_ATTEMPTS /\ uploaded_image_base64 = None

PoolNext ==
  \/ \E r \in JudgeRouterResponses : query_router(r)
  \/ embedding_determination_node("vector", "vector")
  \/ \E r \in PoolSqlResponses : sql_generation_node(r)
  \/ \E st \in StoreOutcomes, ev \in PoolEvalResponses : result_evaluation_node(st, ev)
  \/ run_chat_agent(MAX_ATTEMPTS, None)

PoolSpec == PoolInit /\ [][PoolNext]_vars

(* ------------------------------ outcome -------------------------------- *)

\* the dictionary run_chat_agent returns once the graph has reached END
Outcome ==
  [final_answer |-> final_answer,
   query_results |-> query_results,
   sql_query |-> sql_query,
   enhanced_query |-> enhanced_query,
   all_sql_queries |-> sql_query_history,
   attempts |-> attempt_count + 1]

Terminated == pc = "END"

HasPlaceholder(sql) ==
  \E i \in 1..Len(sql) : sql[i] \in {EMBEDDING_VECTOR, VISUAL_EMBEDDING}

\* the result_evaluation step fails at the SELECT check or in the store
ExecFailure(st) ==
  /\ pc = "result_evaluation"
  /\ TruthyList(sql_query)
  /\ (~IsSelectOnly(sql_query) \/ st.error # None)

ExecErrorTexts ==
  { ExecErrorFeedback(e) : e \in {"Only SELECT queries are allowed", "syntax error"} }

(* ----------------- lazily initialised singletons, per turn ------------- *)

\* turn t moves to position p
Goto(t, p) == turn_pc' = [turn_pc EXCEPT ![t] = p]

\* an object of kind k is built: its serial number
Built(k) == constructed[k] + 1

CountBuilt(k) == constructed' = [constructed EXCEPT ![k] = @ + 1]

\* init_db_connection up to its test: connection_pool is None
init_db_connection(t) ==
  /\ turn_pc[t] = "idle"
  /\ connection_pool = NoObject
  /\ Goto(t, "init_db_connection")
  /\ UNCHANGED <<connection_pool, bedrock_client, text_model, clip_model, clip_processor,
                 constructed>>
  /\ UNCHANGED <<chatVars, lambdaVars, reactVars, blenderVars>>

\* psycopg2.pool.SimpleConnectionPool(...) and the assignment, or its exception
SimpleConnectionPool(t, ok) ==
  /\ turn_pc[t] = "init_db_connection"
  /\ constructed["connection_pool"] < MaxConstructions
  /\ Goto(t, "idle")
  /\ IF ok THEN /\ connection_pool' = Built("connection_pool")
                /\ CountBuilt("connection_pool")
          ELSE UNCHANGED <<connection_pool, constructed>>
  /\ UNCHANGED <<bedrock_client, text_model, clip_model, clip_processor>>
  /\ UNCHANGED <<chatVars, lambdaVars, reactVars, blenderVars>>

\* _get_bedrock_client up to its test: no client, or one of the other mode
get_bedrock_client(t, streaming) ==
  /\ turn_pc[t] = "idle"
  /\ (bedrock_client = NoClient \/ bedrock_client.streaming # streaming)
  /\ Goto(t, "_get_bedrock_client")
  /\ UNCHANGED <<connection_pool, bedrock_client, text_model, clip_model, clip_processor,
                 constructed>>
  /\ UNCHANGED <<chatVars, lambdaVars, reactVars, blenderVars>>

\* ChatBedrock(...) and the assignment, or its exception
ChatBedrock(t, streaming, ok) ==
  /\ turn_pc[t] = "_get_bedrock_client"
  /\ constructed["bedrock_client"] < MaxConstructions
  /\ Goto(t, "idle")
  /\ IF ok THEN /\ bedrock_client' = [id |-> Built("bedrock_client"), streaming |-> streaming]
                /\ CountBuilt("bedrock_client")
          ELSE UNCHANGED <<bedrock_client, constructed>>
  /\ UNCHANGED <<connection_pool, text_model, clip_model, clip_processor>>
  /\ UNCHANGED <<chatVars, lambdaVars, reactVars, blenderVars>>

\* get_text_embedding_model up to its test: _text_model is None
get_text_embedding_model(t) ==
  /\ turn_pc[t] = "idle"
  /\ text_model = NoObject
  /\ Goto(t, "get_text_embedding_model")
  /\ UNCHANGED <<connection_pool, bedrock_client, text_model, clip_model, clip_processor,
                 constructed>>
  /\ UNCHANGED <<chatVars, lambdaVars, reactVars, blenderVars>>

\* SentenceTransformer(...) and the assignment, or its exception
SentenceTransformer(t, ok) ==
  /\ turn_pc[t] = "get_text_embedding_model"
  /\ constructed["text_model"] < MaxConstructions
  /\ Goto(t, "idle")
  /\ IF ok THEN /\ text_model' = Built("text_model")
                /\ CountBuilt("text_model")
          ELSE UNCHANGED <<text_model, constructed>>
  /\ UNCHANGED <<connection_pool, bedrock_client, clip_model, clip_processor>>
  /\ UNCHANGED <<chatVars, lambdaVars, reactVars, blenderVars>>

\* get_clip_model up to its test: _clip_model or _clip_processor is None
get_clip_model(t) ==
  /\ turn_pc[t] = "idle"
  /\ (clip_model = NoObject \/ clip_processor = NoObject)
  /\ Goto(t, "get_clip_model")
  /\ UNCHANGED <<connection_pool, bedrock_client, text_model, clip_model, clip_processor,
                 constructed>>
  /\ UNCHANGED <<chatVars, lambdaVars, reactVars, blenderVars>>

\* CLIPModel.from_pretrained(...) and the assignment, or its exception
CLIPModel(t, ok) ==
  /\ turn_pc[t] = "get_clip_model"
  /\ constructed["clip_model"] < MaxConstructions
  /\ IF ok THEN /\ clip_model' = Built("clip_model")
                /\ CountBuilt("clip_model")
                /\ Goto(t, "CLIPProcessor")
          ELSE /\ Goto(t, "idle")
               /\ UNCHANGED <<clip_model, constructed>>
  /\ UNCHANGED <<connection_pool, bedrock_client, text_model, clip_processor>>
  /\ UNCHANGED <<chatVars, lambdaVars, reactVars, blenderVars>>

\* CLIPProcessor.from_pretrained(...) and the assignment, or its exception
CLIPProcessor(t, ok) ==
  /\ turn_pc[t] = "CLIPProcessor"
  /\ constructed["clip_processor"] < MaxConstructions
  /\ Goto(t, "idle")
  /\ IF ok THEN /\ clip_processor' = Built("clip_processor")
                /\ CountBuilt("clip_processor")
          ELSE UNCHANGED <<clip_processor, constructed>>
  /\ UNCHANGED <<connection_pool, bedrock_client, text_model, clip_model>>
  /\ UNCHANGED <<chatVars, lambdaVars, reactVars, blenderVars>>

SingletonNext ==
  \E t \in Turns :
    \/ init_db_connection(t)
    \/ \E ok \in BOOLEAN : SimpleConnectionPool(t, ok)
    \/ \E streaming \in BedrockCallModes : get_bedrock_client(t, streaming)
    \/ \E streaming \in BedrockCallModes, ok \in BOOLEAN : ChatBedrock(t, streaming, ok)
    \/ get_text_embedding_model(t)
    \/ \E ok \in BOOLEAN : SentenceTransformer(t, ok)
    \/ get_clip_model(t)
    \/ \E ok \in BOOLEAN : CLIPModel(t, ok)
    \/ \E ok \in BOOLEAN : CLIPProcessor(t, ok)

\* the chat agent stands still: only the initialisers move
SingletonInit == Init /\ max_attempts = MAX_ATTEMPTS /\ uploaded_image_base64 = None

SingletonSpec == SingletonInit /\ [][SingletonNext]_vars

(* --------------------------- the /chat handler ------------------------- *)

\* full_response.startswith('<|begin_of_text|>'), on the answer texts explored
StartsWithPrompt(text) == text \in {PROMPT_ANSWER}

\* what the Bedrock model streams back for a prompt, chunk by chunk; the last
\* one is what stream_bedrock_response yields when the call fails
BedrockStreams ==
  { <<>>, <<"Hel", "lo!">>, <<"\n\n[Error: Unable to generate response - timeout]">> }

RECURSIVE ConcatChunks(_)
ConcatChunks(chunks) ==
  IF chunks = <<>> THEN "" ELSE Head(chunks) \o ConcatChunks(Tail(chunks))

\* handle_chat from the return of run_chat_agent on: the answer events of the
\* SSE stream or the 'answer' field of the JSON body, and the assistant
\* message given to add_message; an exception of run_chat_agent is answered
\* with status 500
handle_chat(enable_streaming, stream) ==
  /\ pc \in {"END", "raised"}
  /\ http_status = 0
  /\ IF pc = "raised"
       THEN /\ http_status' = 500
            /\ UNCHANGED <<answer_chunks, answer_field, assistant_message>>
       ELSE LET is_prompt == Truthy(Outcome.final_answer) /\ StartsWithPrompt(Outcome.final_answer)
                full_response == IF is_prompt THEN ConcatChunks(stream)
                                 ELSE Outcome.final_answer
            IN /\ http_status' = 200
               /\ answer_chunks' = IF ~enable_streaming THEN <<>>
                                   ELSE IF is_prompt THEN stream
                                   ELSE <<Outcome.final_answer>>
               /\ answer_field' = IF enable_streaming THEN Absent ELSE full_response
               /\ assistant_message' = full_response
  /\ UNCHANGED <<chatVars, singletonVars, reactVars, blenderVars>>

LambdaNext ==
  \/ \E r \in RouterResponses : query_router(r)
  \/ \E tout, vout \in EmbedOutcomes : embedding_determination_node(tout, vout)
  \/ \E r \in SqlResponses : sql_generation_node(r)
  \/ \E st \in StoreOutcomes, ev \in FrontEvalResponses : result_evaluation_node(st, ev)
  \/ \E enable_streaming \in BOOLEAN, stream \in BedrockStreams :
        handle_chat(enable_streaming, stream)

\* handle_chat calls run_chat_agent with max_attempts=2
LambdaInit == Init /\ max_attempts = MAX_ATTEMPTS

LambdaSpec == LambdaInit /\ [][LambdaNext]_vars

\* the answer text a client reads: the 'answer' field, or the texts of the
\* answer_chunk events put together (a single null text stays null)
PresentedAnswer ==
  IF answer_field # Absent THEN answer_field
  ELSE IF answer_chunks = <<None>> THEN None
  ELSE ConcatChunks(answer_chunks)

(* ------------------- the ReAct agent of backend/agent.py ---------------- *)

\* the max_iterations arguments explored
IterationBudgets == (0..MaxIterations) \cup {MAX_ITERATIONS}

\* tool names a model response may name: tools of AVAILABLE_TOOLS and a name
\* that is none of them
ToolNames == {"search_by_metadata_embedding", "get_file_details", "no_such_tool"}

AVAILABLE_TOOLS == {"search_by_metadata_embedding", "get_file_details"}

\* a tool result: None, a list of len items, or a dict whose 'error' entry is
\* absent or a text
PendingResult == [kind |-> "None", len |-> 0, error |-> Absent]

ListResult(n) == [kind |-> "list", len |-> n, error |-> Absent]

DictResult(e) == [kind |-> "dict", len |-> 0, error |-> e]

\* what a tool of AVAILABLE_TOOLS leaves in tool_result['result']: the list or
\* dict it returns, the {"error": ...} dict of get_file_details, or the
\* {"error": str(e)} of the except handler, where str(e) is '' for an
\* exception raised without a message
ToolOutcomes ==
  { ListResult(0), ListResult(2), DictResult(Absent),
    DictResult("File with ID 7 not found"), DictResult("") }

ToolNotFound(name) == DictResult("Tool " \o name \o " not found")

\* parse_tool_calls_from_response: the tool names of the well-formed
\* Action / Action Input pairs of a response, in order
ParsedToolCalls ==
  UNION { [1..n -> ToolNames] : n \in 0..MaxCallsPerResponse }

FINAL_PROMPT == "<|begin_of_text|><|start_header_id|>system<|end_header_id|>"

\* run_agent up to agent.invoke: the initial AgentState
run_agent(mi) ==
  /\ react_pc = "idle"
  /\ react_pc' = "reasoning"
  /\ iteration' = 0
  /\ max_iterations' = mi
  /\ tool_results' = <<>>
  /\ react_final_answer' = None
  /\ UNCHANGED <<chatVars, lambdaVars, singletonVars, blenderVars>>

reasoning_node(calls) ==
  /\ react_pc = "reasoning"
  /\ Len(tool_results) + Len(calls) <= MaxToolResults
  /\ tool_results' = tool_results \o [i \in 1..Len(calls) |->
                                        [tool |-> calls[i], result |-> PendingResult]]
  /\ react_pc' = "tool_execution"
  /\ UNCHANGED <<iteration, max_iterations, react_final_answer>>
  /\ UNCHANGED <<chatVars, lambdaVars, singletonVars, blenderVars>>

\* every tool result is there
AllHaveResults(trs) == \A i \in 1..Len(trs) : trs[i].result # PendingResult

\* bool(x) of the 'error' entry of a dict
ErrorTruthy(e) == e # Absent /\ e # ""

\* (isinstance(result, list) and len(result) > 0) or
\* (isinstance(result, dict) and not result.get('error'))
IsData(res) ==
  \/ (res.kind = "list" /\ res.len > 0)
  \/ (res.kind = "dict" /\ ~ErrorTruthy(res.error))

should_continue(it, mi, trs) ==
  IF it >= mi THEN "finish"
  ELSE IF Len(trs) > 0 /\ AllHaveResults(trs) /\ (\E i \in 1..Len(trs) : IsData(trs[i].result))
    THEN "finish"
  ELSE IF it < mi THEN "continue" ELSE "finish"

\* tool_execution_node and the conditional edge after it; outs gives the
\* outcome of the tool call recorded at each position
tool_execution_node(outs) ==
  /\ react_pc = "tool_execution"
  /\ LET trs == [i \in 1..Len(tool_results) |->
                   IF tool_results[i].result # PendingResult THEN tool_results[i]
                   ELSE [tool_results[i] EXCEPT !.result =
                           IF tool_results[i].tool \in AVAILABLE_TOOLS THEN outs[i]
                           ELSE ToolNotFound(tool_results[i].tool)]]
     IN /\ tool_results' = trs
        /\ iteration' = iteration + 1
        /\ react_pc' = IF should_continue(iteration + 1, max_iterations, trs) = "continue"
                         THEN "reasoning" ELSE "final_response"
  /\ UNCHANGED <<max_iterations, react_final_answer>>
  /\ UNCHANGED <<chatVars, lambdaVars, singletonVars, blenderVars>>

final_response_node ==
  /\ react_pc = "final_response"
  /\ react_final_answer' = FINAL_PROMPT
  /\ react_pc' = "END"
  /\ UNCHANGED <<iteration, max_iterations, tool_results>>
  /\ UNCHANGED <<chatVars, lambdaVars, singletonVars, blenderVars>>

ReactNext ==
  \/ \E mi \in IterationBudgets : run_agent(mi)
  \/ \E calls \in ParsedToolCalls : reasoning_node(calls)
  \/ \E outs \in [1..MaxToolResults -> ToolOutcomes] : tool_execution_node(outs)
  \/ final_response_node

ReactInit == Init /\ max_attempts = MAX_ATTEMPTS /\ uploaded_image_base64 = None

ReactSpec == ReactInit /\ [][ReactNext]_vars

(* ---------------- the modal operators of the Blender add-on ------------ *)

\* Operator.invoke: get_api_client hands out the one global client, the
\* *_async call starts a thread for the request, the operator goes modal
invoke(o, call) ==
  /\ op_pc[o] = "idle"
  /\ op_pc' = [op_pc EXCEPT ![o] = "RUNNING_MODAL"]
  /\ op_request' = [op_request EXCEPT ![o] = call]
  /\ in_flight' = in_flight \cup {o}
  /\ UNCHANGED <<op_response, response_queue>>
  /\ UNCHANGED <<chatVars, lambdaVars, singletonVars, reactVars>>

\* the wrapper of _run_in_thread: the request returns or raises, and the
\* thread puts its item on the shared queue
wrapper(o, status) ==
  /\ o \in in_flight
  /\ in_flight' = in_flight \ {o}
  /\ response_queue' = Append(response_queue, Response(o, op_request[o], status))
  /\ UNCHANGED <<op_pc, op_request, op_response>>
  /\ UNCHANGED <<chatVars, lambdaVars, singletonVars, reactVars>>

\* Operator.modal on a TIMER event with an item on the queue: get_response
\* takes the oldest item and the operator finishes with it
modal(o) ==
  /\ op_pc[o] = "RUNNING_MODAL"
  /\ response_queue # <<>>
  /\ op_response' = [op_response EXCEPT ![o] = Head(response_queue)]
  /\ response_queue' = Tail(response_queue)
  /\ op_pc' = [op_pc EXCEPT ![o] = "FINISHED"]
  /\ UNCHANGED <<op_request, in_flight>>
  /\ UNCHANGED <<chatVars, lambdaVars, singletonVars, reactVars>>

BlenderNext ==
  \E o \in Operators :
    \/ \E call \in AsyncCalls : invoke(o, call)
    \/ \E status \in {"success", "error"} : wrapper(o, status)
    \/ modal(o)

BlenderInit == Init /\ max_attempts = MAX_ATTEMPTS /\ uploaded_image_base64 = None

BlenderSpec == BlenderInit /\ [][BlenderNext]_vars

(* ------------------------------- claims -------------------------------- *)

\* C1: whenever the graph reaches END, the final_answer of the returned
\* outcome is not None, on every path.
C1_FinalAnswerNonNull == Terminated => Outcome.final_answer # None

\* C2: the Attempt History never holds more than max_attempts records.
C2_HistoryWithinBudget == Len(sql_query_history) <= max_attempts

\* C3: the attempt ordinals of the history, in list order, start at 1 and
\* increase strictly.
C3_OrdinalsIncrease ==
  /\ sql_query_history # <<>> => sql_query_history[1].attempt = 1
  /\ \A i \in 1..Len(sql_query_history) - 1 :
        sql_query_history[i].attempt < sql_query_history[i + 1].attempt

\* C4: a router response with is_database_query = false takes the run from
\* routing straight to END, with the direct answer as final_answer, an empty
\* row set and an empty history, whatever the direct_answer field holds.
C4_DirectAnswerExits ==
  [][\A r \in RouterResponses :
        (r.kind = "json" /\ r.is_database_query = "false" /\ query_router(r))
           => /\ pc' = "END"
              /\ final_answer' = Get(r.direct_answer, NOT_DATABASE)
              /\ query_results' = <<>>
              /\ sql_query_history' = <<>>
              /\ synth_runs' = 0
              /\ embed_calls' = {}]_vars

\* C5: no exception leaves run_chat_agent, whatever the model, the embedder
\* and the store return.
C5_NoExceptionPropagates == pc # "raised"

\* C6: an execution failure on attempt k consumes one attempt; with budget
\* left the synthesizer runs again with the error text as feedback, and on
\* the last attempt the run ends with the hedge answer of an unsatisfactory
\* verdict over an empty row set.
C6_ExecFailureLikeUnsatisfactory ==
  [][\A st \in StoreOutcomes, ev \in EvalResponses :
        (ExecFailure(st) /\ result_evaluation_node(st, ev))
           => /\ attempt_count' = attempt_count + 1
              /\ IF attempt_count + 1 < max_attempts
                   THEN /\ pc' = "sql_generation"
                        /\ evaluation_feedback' \in ExecErrorTexts
                   ELSE /\ pc' = "END"
                        /\ final_answer' = HEDGE_EMPTY]_vars

\* the run matches Scenario C: budget 2, the first statement failed in the
\* store, and a second synthesis produced a statement
ScenarioC ==
  /\ max_attempts = 2
  /\ Len(sql_query_history) >= 2
  /\ sql_query_history[1].sql = <<"SELECT">>
  /\ sql_query_history[1].results = NoneList
  /\ TruthyList(sql_query_history[2].sql)

\* C7: in Scenario C the run ends with exactly 2 history records, the first
\* carrying the execution-error text as feedback, a final answer, and no
\* exception.
C7_ScenarioC ==
  ScenarioC =>
    /\ pc # "raised"
    /\ Len(sql_query_history) = 2
    /\ Terminated =>
         /\ sql_query_history[1].feedback \in ExecErrorTexts
         /\ Truthy(final_answer)

\* C8: the store executes at most max_attempts statements and the model is
\* called at most 1 + 2 * max_attempts times in a run.
C8_CallsWithinBudget ==
  /\ Len(executed) <= max_attempts
  /\ llm_calls <= 1 + 2 * max_attempts

\* the remaining attempt budget
Variant == max_attempts - attempt_count

\* C9: the sql_generation -> result_evaluation -> sql_generation cycle cannot
\* go on for ever: every retry uses up part of the attempt budget.
C9_RetryConsumesBudget ==
  [][(pc = "result_evaluation" /\ pc' = "sql_generation")
        => (Variant' < Variant /\ Variant' > 0)]_vars

\* C10: a statement that still holds an embedding placeholder is never passed
\* to the store.
C10_NoPlaceholderExecuted ==
  \A i \in 1..Len(executed) : ~HasPlaceholder(executed[i])

\* the first token of the trimmed, upper-cased statement text
FirstKeyword(sql) == IF Strip(sql) = <<>> THEN "" ELSE Upper(Head(Strip(sql)))

\* C11: a statement whose trimmed, upper-cased text does not begin with
\* SELECT or WITH is never passed to the store's execute.
C11_OnlySelectExecuted ==
  \A i \in 1..Len(executed) : FirstKeyword(executed[i]) \in {"SELECT", "WITH"}

\* a DROP statement was generated and judged, and the store never saw it
C11_Witness ==
  /\ sql_query = <<"DROP">>
  /\ pc \in {"sql_generation", "END"}
  /\ evaluation_feedback = "SQL execution error: Only SELECT queries are allowed"
  /\ executed = <<>>

\* the row set of a single aggregate row of value 0, as result_evaluation
\* stores it
ZeroAggregateRows == <<"count=0 thumbnail_url">>

\* C12: an attempt whose result set is a single aggregate row of value 0 is
\* never recorded as unsatisfactory, whatever the model's verdict.
C12_ZeroAggregateSatisfactory ==
  \A i \in 1..Len(sql_query_history) :
     sql_query_history[i].results = ZeroAggregateRows
        => sql_query_history[i].satisfactory # "False"

\* the statement of this result_evaluation step is executed and rows come back
ExecSuccess(st) ==
  /\ pc = "result_evaluation"
  /\ ~PoolExhausted(checked_out)
  /\ sql_query \notin {NoneList, <<>>}
  /\ FirstKeyword(sql_query) \in {"SELECT", "WITH"}
  /\ st.error = None

\* C13: a parsed verdict with satisfactory = true ends the run at that
\* attempt, with the summary (or the count sentence when the summary mentions
\* tools) as final_answer; no synthesis follows.
C13_SatisfactoryTerminates ==
  [][\A st \in StoreOutcomes, ev \in EvalResponses :
        (/\ ExecSuccess(st)
         /\ ev.kind = "json" /\ ev.satisfactory = "true"
         /\ result_evaluation_node(st, ev))
           => /\ pc' = "END"
              /\ ev.summary \notin {Absent, JNull} =>
                   final_answer' = IF ev.summary = "The tool returned rows."
                                     THEN FoundMsg(Len(st.rows))
                                     ELSE ev.summary]_vars

\* the verdict of a parsed evaluation is not satisfactory
Unsatisfactory(ev) == ev.kind = "json" /\ ev.satisfactory # "true"

\* C14: an unsatisfactory verdict on the attempt that exhausts the budget
\* ends the run with the hedge answer: the count message over a non-empty row
\* set, the rephrase message over an empty one.
C14_ExhaustedHedges ==
  [][(pc = "result_evaluation" /\ attempt_count + 1 >= max_attempts) =>
     \A st \in { s \in StoreOutcomes : ExecSuccess(s) },
        ev \in { e \in EvalResponses : Unsatisfactory(e) } :
        result_evaluation_node(st, ev)
           => /\ pc' = "END"
              /\ final_answer' = IF st.rows # <<>> THEN HedgeFound(Len(st.rows))
                                 ELSE HEDGE_EMPTY
              /\ attempt_count' = attempt_count]_vars

\* a second attempt was judged unsatisfactory and the run ended with the
\* count hedge over two rows
C14_Witness ==
  /\ pc = "END"
  /\ Len(sql_query_history) = 2
  /\ sql_query_history[2].satisfactory = "False"
  /\ final_answer = "I found 2 results, but they may not fully answer your question. Please try rephrasing or being more specific."

\* the synthesizer's response carries no usable SQL: no JSON, or a JSON
\* object whose sql is missing or empty
NoUsableSql(r) ==
  \/ r.kind # "json"
  \/ r.sqlkind = "absent"
  \/ (r.sqlkind = "text" /\ r.sql = <<>>)

\* C15: when the synthesizer yields no usable SQL, on the first attempt or on
\* a retry, the next step ends the run with the apology and an empty row set,
\* without calling the store or the synthesizer again.
C15_SynthesisFailureApologises ==
  [][/\ \A r \in SqlResponses :
          (NoUsableSql(r) /\ sql_generation_node(r))
             => (pc' = "result_evaluation" /\ sql_query' \in {NoneList, <<>>})
     /\ (pc = "result_evaluation" /\ sql_query \in {NoneList, <<>>})
          => /\ pc' = "END"
             /\ final_answer' = APOLOGY
             /\ query_results' = <<>>
             /\ executed' = executed
             /\ llm_calls' = llm_calls]_vars

\* a retry produced an empty statement and the run ended with the apology
C15_Witness ==
  /\ pc = "END"
  /\ synth_runs = 2
  /\ sql_query = <<>>
  /\ final_answer = APOLOGY
  /\ query_results = <<>>
  /\ Len(executed) = 1

\* C16: when the statement executed and the judge's response holds no
\* parseable JSON, the run ends without retry: 'Found N results.' over a
\* non-empty row set, 'No results found for your query.' otherwise.
C16_JudgeParseFailure ==
  [][pc = "result_evaluation" =>
     \A st \in { s \in StoreOutcomes : ExecSuccess(s) },
        ev \in { e \in EvalResponses : e.kind \in {"nojson", "badjson"} } :
        result_evaluation_node(st, ev)
           => /\ pc' = "END"
              /\ final_answer' = IF st.rows # <<>> THEN FoundMsg(Len(st.rows))
                                 ELSE "No results found for your query."]_vars

\* a retry executed, returned no rows, and the unparseable verdict ended the
\* run with the no-results answer
C16_Witness ==
  /\ pc = "END"
  /\ Len(executed) = 2
  /\ query_results = <<>>
  /\ evaluation_feedback # None
  /\ final_answer = "No results found for your query."

\* C17: when the router's response holds no {...} span or the span is not
\* JSON, the turn is treated as a database query: enhanced_query is the raw
\* user query, query_intent the default intent, final_answer stays unset and
\* the run goes on to the embedding stage.
C17_RouterFallback ==
  [][\A r \in RouterResponses :
        (r.kind \in {"nojson", "badjson"} /\ query_router(r))
           => /\ pc' = "embedding_determination"
              /\ enhanced_query' = UserQuery
              /\ query_intent' = {"search_type=similarity", "needs_text_embedding"}
              /\ final_answer' = None
              /\ exc' = None]_vars

\* the fallback intent is in the state and the embedding stage is next
C17_Witness ==
  /\ pc = "embedding_determination"
  /\ enhanced_query = UserQuery
  /\ "search_type=similarity" \in query_intent
  /\ llm_calls = 1

\* C18: a failed text embedding leaves text_embedding absent, never the
\* all-zero vector, and no statement carries the all-zero vector literal.
C18_NoZeroTextVector ==
  /\ text_embedding # ZeroVector(TextDim)
  /\ \A i \in 1..Len(sql_query_history) :
        \A j \in 1..Len(sql_query_history[i].sql) :
           sql_query_history[i].sql[j] # VectorLiteral(ZeroVector(TextDim))

\* the embedding stage has run
Embedded == pc \in {"sql_generation", "result_evaluation", "END"}

\* C19: with needs_visual_embedding set and an uploaded image present, the
\* embedding stage calls generate_image_embedding_from_base64 and the run never
\* calls generate_image_embedding_from_text, also when the call fails.
C19_UploadedImageEmbedded ==
  Truthy(uploaded_image_base64) =>
    /\ "generate_image_embedding_from_text" \notin embed_calls
    /\ (Embedded /\ "needs_visual_embedding" \in query_intent)
          => "generate_image_embedding_from_base64" \in embed_calls

\* the image-bytes call was made and failed, and the run went on
C19_Witness ==
  /\ uploaded_image_base64 = "base64-jpeg"
  /\ "needs_visual_embedding" \in query_intent
  /\ pc = "result_evaluation"
  /\ visual_embedding = NoneList
  /\ embed_calls = {"generate_image_embedding_from_base64"}

\* C20: when both vectors are resolved and non-empty, no statement stored in
\* an attempt holds a placeholder token.
C20_BothVectorsSubstituted ==
  (TruthyList(text_embedding) /\ TruthyList(visual_embedding))
     => \A i \in 1..Len(sql_query_history) : ~HasPlaceholder(sql_query_history[i].sql)

\* a statement with three placeholders was stored with both literals in place
C20_Witness ==
  /\ TruthyList(text_embedding) /\ TruthyList(visual_embedding)
  /\ sql_query_history # <<>>
  /\ sql_query_history[1].sql =
       <<" ", "with", VectorLiteral(text_embedding), VectorLiteral(visual_embedding),
         VectorLiteral(text_embedding)>>

\* the last record of the Attempt History
LastAttempt == sql_query_history[Len(sql_query_history)]

\* C21: when the run ends, query_results is empty or is the row set of the
\* last attempt: the statement executed last is the outcome's sql_query, it
\* is the last record of the history, and that record's results are the
\* outcome's rows.
C21_ResultsOfLastAttempt ==
  Terminated =>
    \/ Outcome.query_results = <<>>
    \/ /\ sql_query_history # <<>>
       /\ LastAttempt.sql = Outcome.sql_query
       /\ LastAttempt.results = Outcome.query_results
       /\ executed # <<>>
       /\ executed[Len(executed)] = Outcome.sql_query

\* a first attempt returned rows and was judged unsatisfactory, the retry
\* failed in the store, and the outcome reports no rows
C21_Witness ==
  /\ Terminated
  /\ Len(sql_query_history) = 2
  /\ sql_query_history[1].results # <<>>
  /\ sql_query_history[1].results # NoneList
  /\ LastAttempt.results = NoneList
  /\ Len(executed) = 2
  /\ query_results = <<>>

\* C22: every run of sql_generation_node that returns appends exactly one
\* record with ordinal attempt_count + 1 and results = None, so the history
\* is as long as the number of synthesizer runs.
C22_OneAttemptPerSynthesis ==
  /\ Len(sql_query_history) = synth_runs
  /\ \A i \in 1..Len(sql_query_history) :
        sql_query_history[i].attempt \in 1..synth_runs

\* C23: a record whose feedback is not None or that has a satisfactory flag
\* has results that are not None.
C23_ResultsBeforeFeedback ==
  \A i \in 1..Len(sql_query_history) :
     (sql_query_history[i].feedback # None \/ sql_query_history[i].satisfactory # Absent)
        => sql_query_history[i].results # NoneList

\* both records of a two-attempt history carry feedback over backfilled rows
C23_Witness ==
  /\ Len(sql_query_history) = 2
  /\ \A i \in 1..2 : /\ sql_query_history[i].feedback = "Filter by show."
                     /\ sql_query_history[i].satisfactory = "False"
                     /\ sql_query_history[i].results # NoneList

\* C24: no step shortens the history or changes a record that is not the
\* last one; the last record changes only in result_evaluation_node, only
\* when it is the attempt being judged (its statement is the current
\* sql_query and its results are still None), and only in its results,
\* result_count, feedback and satisfactory fields.
C24_SupersededAttemptsFrozen ==
  [][LET h == sql_query_history
         n == Len(sql_query_history)
     IN /\ Len(sql_query_history') >= n
        /\ \A i \in 1..(n - 1) : sql_query_history'[i] = h[i]
        /\ (n > 0 /\ sql_query_history'[n] # h[n]) =>
             /\ pc = "result_evaluation"
             /\ TruthyList(sql_query)
             /\ h[n].sql = sql_query
             /\ h[n].results = NoneList
             /\ sql_query_history'[n].sql = h[n].sql
             /\ sql_query_history'[n].attempt = h[n].attempt]_vars

\* the second attempt was judged while the record of the first one kept the
\* feedback and the rows written when it was judged
C24_Witness ==
  /\ Len(sql_query_history) = 2
  /\ sql_query_history[1].feedback = "Filter by show."
  /\ sql_query_history[1].results = <<>>
  /\ sql_query_history[2].results = <<"a.blend thumbnail_url", "b.blend thumbnail_url">>
  /\ sql_query_history[2].feedback = DEFAULT_FEEDBACK

\* C28: the attempts count of the outcome lies between 1 and max_attempts.
C28_AttemptsWithinBudget == Terminated => Outcome.attempts \in 1..max_attempts

\* C25: a connection taken by result_evaluation_node is back in the pool when
\* the node returns, on every path: no connection is out when a turn has
\* ended, and the pool is never exhausted.
C25_ConnectionsReturned ==
  /\ pc \in {"sql_generation", "END"} => checked_out = 0
  /\ ~PoolExhausted(checked_out)

\* C26: for every outcome run_chat_agent returns, the answer handle_chat
\* presents (the answer_chunk texts put together, or the 'answer' field) and
\* the assistant message it persists are the outcome's final_answer.
C26_PresentationKeepsAnswer ==
  http_status = 200 =>
    /\ PresentedAnswer = Outcome.final_answer
    /\ assistant_message = Outcome.final_answer

\* C27: under every interleaving of concurrent turns each shared singleton
\* is built at most once, and a singleton that holds an object never comes to
\* hold another one.
C27_SingletonsBuiltOnce ==
  /\ \A k \in SingletonKinds : constructed[k] <= 1
  /\ connection_pool \in {NoObject, 1}
  /\ bedrock_client.id \in {NoObject, 1}
  /\ text_model \in {NoObject, 1}
  /\ clip_model \in {NoObject, 1}
  /\ clip_processor \in {NoObject, 1}

\* non-error data: a non-empty list, or a dict without an 'error' entry
NonErrorData(res) ==
  \/ (res.kind = "list" /\ res.len > 0)
  \/ (res.kind = "dict" /\ res.error = Absent)

\* the larger of two numbers
Max(a, b) == IF a >= b THEN a ELSE b

\* C29: a run_agent run makes at least one and at most max(1, max_iterations)
\* reasoning -> tool_execution rounds before final_response, and a round is
\* followed by final_response before the budget is used up exactly when every
\* recorded tool call has a result and one of the results is non-error data.
C29_ReactLoopBounded ==
  [][/\ iteration' <= Max(1, max_iterations')
     /\ react_pc' = "final_response" => iteration' >= 1
     /\ (react_pc = "tool_execution" /\ iteration' < max_iterations') =>
          (react_pc' = "final_response" <=>
             /\ tool_results' # <<>>
             /\ AllHaveResults(tool_results')
             /\ \E i \in 1..Len(tool_results') : NonErrorData(tool_results'[i].result))]_vars

\* C30: the response a modal operator takes from get_response is the
\* response of the request that operator started.
C30_OwnResponseOnly ==
  \A o \in Operators :
     op_pc[o] = "FINISHED" =>
        /\ op_response[o].owner = o
        /\ op_response[o].call = op_request[o]
====
